---- MODULE Spec2Model ----
(***************************************************************************)
(* Model of the Molecule secret-storage core (src/silos/kv_silo.rs):       *)
(*   - KVStore: a HashMap<String, Secret> behind one tokio RwLock, with    *)
(*     whole-store encrypted persistence to a single snapshot file;        *)
(*   - encrypt_data / decrypt_data: XChaCha20-Poly1305 with a 24-byte      *)
(*     nonce drawn per call;                                               *)
(*   - split_dek / reconstruct_dek: Shamir sharing over GF(256), (3, 5).   *)
(*                                                                         *)
(* Specifications:                                                         *)
(*   Spec       concurrent tasks calling set/get/save/load on one store,   *)
(*              the snapshot file, process restarts and file corruption    *)
(*   SpecSplit  split_dek on a secret, reconstruct_dek on a collection     *)
(*              of the shares                                              *)
(*   SpecCipher encrypt_data, a bit flipped in the result, decrypt_data    *)
(*   SpecLive   Spec with the tasks scheduled fairly                       *)
(*   SpecShare  to_bytes and from_bytes of a share                         *)
(*   SpecGate   grant and check calls on the access gate                   *)
(*   SpecMain   runs of the command-line program (src/main.rs)             *)
(***************************************************************************)
EXTENDS Integers, Sequences, FiniteSets, TLC

VARIABLES
    secrets,    \* KVStore.secrets: the HashMap, a function name -> Secret
    lock,       \* the RwLock: [w |-> writer task or NoTask, r |-> reader tasks]
    file,       \* the snapshot file: [exists, denied, cells]
    pc,         \* per task: the next statement of the call it is in
    arg,        \* per task: the arguments of the call
    loc,        \* per task: the local variables of the call
    ret,        \* per task: what the last finished call returned
    seen,       \* history: per task, the provenance of the file a load read
    fileSrc,    \* history: the provenance of the snapshot file's content
    committed,  \* history: per name, the values completed writes gave it
    budget,     \* calls still allowed
    sp,         \* SpecSplit: the secret, its shares, the collection to recover from
    ci,         \* SpecCipher: the key, the plaintext, the ciphertext, the result
    se,         \* SpecShare: a share or a byte string, and its conversions
    ac,         \* SpecGate: the AccessControl's granted set, the last call on it
    cli         \* SpecMain: the runs of the command-line program and its files

store == <<secrets, lock, file, pc, arg, loc, ret, seen, fileSrc, committed, budget>>
\* the state of the specifications other than Spec
aside == <<sp, ci, se, ac, cli>>
vars == <<store, aside>>

----------------------------------------------------------------------------
(* Bounds *)

MaxCalls == 3        \* calls started in one run
MaxLiveCalls == 2    \* the same, in SpecLive

(* Program constants *)

NONCE_LEN == 24     \* XNonce: the iv buffer
KEY_LEN == 32       \* chacha20poly1305::Key

Tasks == {1, 2}     \* the concurrent callers of the store
NoTask == 0

Names == {"a", "b"}
NameCode == [n \in Names |-> IF n = "a" THEN 97 ELSE 98]

\* The records callers hand to set_secret: two records that differ in both
\* fields, so that a mixture of two writes is no record of either.
Secret(iv, ev) == [iv |-> iv, encrypted_value |-> ev]
SecretInputs == {Secret(<<1>>, <<10>>), Secret(<<2>>, <<20, 21>>)}

\* 32-byte master keys and 24-byte nonces, each filled from one seed byte.
MkKey(seed) == [i \in 1..KEY_LEN |-> seed]
MkNonce(seed) == [i \in 1..NONCE_LEN |-> seed]
KeySeeds == {3, 4}
NonceSeeds == {7, 8}
MasterKeys == {MkKey(s) : s \in KeySeeds}
Nonces == {MkNonce(s) : s \in NonceSeeds}

----------------------------------------------------------------------------
(* Bytes *)

RECURSIVE Xor(_, _)
Xor(a, b) ==
    IF a = 0 THEN b
    ELSE IF b = 0 THEN a
    ELSE (((a % 2) + (b % 2)) % 2) + 2 * Xor(a \div 2, b \div 2)

\* A cell of a byte buffer. A data byte has mac = <<>>. The Poly1305 tag is
\* kept as one cell that names what it authenticates (an ideal MAC: equal
\* tags only for equal key, nonce and message); b is then the mask of tag
\* bits flipped since it was computed.
B(n) == [b |-> n, mac |-> <<>>]
Bytes(s) == [i \in 1..Len(s) |-> B(s[i])]
Vals(c) == [i \in 1..Len(c) |-> c[i].b]
IsData(c) == \A i \in 1..Len(c) : c[i].mac = <<>>

----------------------------------------------------------------------------
(* HashMap<String, Secret> *)

EmptyMap == [n \in {} |-> Secret(<<>>, <<>>)]
Insert_DropsOthers(m, k, v) == [n \in {k} |-> v]
Insert(m, k, v) == [n \in (DOMAIN m) \cup {k} |-> IF n = k THEN v ELSE m[n]]
\* Option<Secret>: <<>> is None, <<r>> is Some(r)
Get(m, k) == IF k \in DOMAIN m THEN <<m[k]>> ELSE <<>>

----------------------------------------------------------------------------
(* encrypt_data / decrypt_data: XChaCha20-Poly1305 *)

\* The XChaCha20 keystream byte at position i under (key, nonce).
KeyStream(key, iv, i) == (key[1] * 31 + iv[1] * 17 + i * 7) % 256
StreamXor(key, iv, s) == [i \in 1..Len(s) |-> Xor(s[i], KeyStream(key, iv, i))]

\* The tag over (key, nonce, ciphertext body), no bit flipped.
Tag(key, iv, body) == [b |-> 0, mac |-> <<key, iv, body>>]

encrypt_data_IvNotReturned(key, plaintext, iv) ==
    LET body == StreamXor(key, iv, plaintext)
    IN  [iv |-> MkNonce(0), ct |-> Bytes(body) \o <<Tag(key, iv, body)>>]
\* encrypt_data with the nonce OsRng gave: (iv, ciphertext), the ciphertext
\* being the encrypted body followed by the tag.
encrypt_data(key, plaintext, iv) ==
    LET body == StreamXor(key, iv, plaintext)
    IN  [iv |-> iv, ct |-> Bytes(body) \o <<Tag(key, iv, body)>>]

AeadDecrypt_NoVerify(key, iv, ct) ==
    IF Len(ct) = 0 THEN [ok |-> FALSE, bytes |-> <<>>]
    ELSE [ok |-> TRUE, bytes |-> StreamXor(key, iv, Vals(SubSeq(ct, 1, Len(ct) - 1)))]
\* Aead::decrypt: the tag is verified first; only then is the body decrypted.
AeadDecrypt(key, iv, ct) ==
    IF Len(ct) = 0 THEN [ok |-> FALSE, bytes |-> <<>>]
    ELSE LET cells == SubSeq(ct, 1, Len(ct) - 1)
             body == Vals(cells)
         IN  IF IsData(cells) /\ ct[Len(ct)] = Tag(key, iv, body)
             THEN [ok |-> TRUE, bytes |-> StreamXor(key, iv, body)]
             ELSE [ok |-> FALSE, bytes |-> <<>>]

\* decrypt_data: how |-> "ret" with the plaintext, or how |-> "panic" when
\* from_slice or expect("decryption failure!") panics. There is no error
\* value: the function returns Vec<u8>.
decrypt_data(key, iv, ct) ==
    LET r == AeadDecrypt(key, iv, ct)
    IN  IF Len(key) = KEY_LEN /\ Len(iv) = NONCE_LEN /\ r.ok
        THEN [how |-> "ret", bytes |-> r.bytes]
        ELSE [how |-> "panic", bytes |-> <<>>]

----------------------------------------------------------------------------
(* serde_json::to_vec / from_slice of PersistedSecrets *)

\* The iteration orders of a HashMap with the given key set.
Orders(S) ==
    {s \in [1..Cardinality(S) -> S] : \A i, j \in 1..Cardinality(S) : i # j => s[i] # s[j]}

EncodeEntry(n, r) ==
    <<NameCode[n], Len(r.iv)>> \o r.iv \o <<Len(r.encrypted_value)>> \o r.encrypted_value

RECURSIVE EncodeEntries(_, _)
EncodeEntries(m, order) ==
    IF order = <<>> THEN <<>>
    ELSE EncodeEntry(Head(order), m[Head(order)]) \o EncodeEntries(m, Tail(order))

Serialize_SkipsFirst(m, order) ==
    IF order = <<>> THEN <<0>> ELSE <<Len(order) - 1>> \o EncodeEntries(m, Tail(order))
\* to_vec: the entry count, then each entry in the map's iteration order,
\* every field self-delimiting.
Serialize(m, order) == <<Len(order)>> \o EncodeEntries(m, order)

ParseFail == [ok |-> FALSE, map |-> EmptyMap]

RECURSIVE ParseEntries(_, _, _)
ParseEntries(bytes, k, acc) ==
    IF k = 0 THEN (IF Len(bytes) = 0 THEN [ok |-> TRUE, map |-> acc] ELSE ParseFail)
    ELSE IF Len(bytes) < 2 THEN ParseFail
    ELSE LET ivlen == bytes[2]
         IN  IF (\A n \in Names : NameCode[n] # bytes[1]) \/ Len(bytes) < 3 + ivlen
             THEN ParseFail
             ELSE LET evlen == bytes[3 + ivlen]
                  IN  IF Len(bytes) < 3 + ivlen + evlen THEN ParseFail
                      ELSE LET name == CHOOSE n \in Names : NameCode[n] = bytes[1]
                               rec == Secret(SubSeq(bytes, 3, 2 + ivlen),
                                             SubSeq(bytes, 4 + ivlen, 3 + ivlen + evlen))
                           IN  ParseEntries(SubSeq(bytes, 4 + ivlen + evlen, Len(bytes)),
                                            k - 1, Insert(acc, name, rec))

\* from_slice: Err on anything that is not a serialized map.
Deserialize_OrDefault(bytes) ==
    IF Len(bytes) = 0 THEN [ok |-> TRUE, map |-> EmptyMap]
    ELSE LET p == ParseEntries(Tail(bytes), bytes[1], EmptyMap)
         IN  IF p.ok THEN p ELSE [ok |-> TRUE, map |-> EmptyMap]
Deserialize(bytes) ==
    IF Len(bytes) = 0 THEN ParseFail ELSE ParseEntries(Tail(bytes), bytes[1], EmptyMap)

----------------------------------------------------------------------------
(* The RwLock around the map *)

Unlocked == [w |-> NoTask, r |-> {}]
CanRead_IgnoresWriter(l) == TRUE
CanRead(l) == l.w = NoTask
CanWrite(l) == l.w = NoTask /\ l.r = {}
AcquireRead_Dropped(l, t) == l
AcquireRead(l, t) == [l EXCEPT !.r = @ \cup {t}]
AcquireWrite(l, t) == [l EXCEPT !.w = t]
Release_Leaks(l, t) == l
Release(l, t) == [w |-> IF l.w = t THEN NoTask ELSE l.w, r |-> l.r \ {t}]

(* The snapshot file *)

\* denied: the file is there and the process may not open it
NoFile == [exists |-> FALSE, denied |-> FALSE, cells |-> <<>>]
Max(a, b) == IF a > b THEN a ELSE b
\* write_all of chunk through a handle at offset off; a gap reads as zeros
WriteAt(cells, off, chunk) ==
    [i \in 1..Max(Len(cells), off + Len(chunk)) |->
        IF i > off /\ i <= off + Len(chunk) THEN chunk[i - off]
        ELSE IF i <= Len(cells) THEN cells[i]
        ELSE B(0)]
\* what a handle at offset off reads up to the end of the file
ReadFrom(cells, off) == IF off >= Len(cells) THEN <<>> ELSE SubSeq(cells, off + 1, Len(cells))
\* the file layout save writes: the nonce, then the ciphertext
FirstChunk(iv, ct) == Bytes(iv)
SecondChunk(iv, ct) == ct

(* Per-task records *)

NoArg == [op |-> "none", name |-> "a", rec |-> Secret(<<>>, <<>>), mkey |-> <<>>]
NoLoc == [map |-> EmptyMap, old |-> EmptyMap, first |-> "", iv |-> <<>>, ct |-> <<>>, off |-> 0]
\* what a finished call returned: kind is "Ok", "Err" (an io::Error) or "Panic";
\* val is get's Option<Secret>; why names the statement that returned; name is
\* the name a get or set was about; src (history) tells what file a load read
NoRet == [op |-> "none", kind |-> "none", val |-> <<>>, why |-> "", name |-> "", src |-> ""]

(* History: where the file's content comes from *)
\*   kind "image":   exactly what one save wrote, map and key being that
\*                   save's, no other write since its File::create
\*   kind "corrupt": an image with one bit flipped afterwards
\*   kind "partial": a save is between File::create and its last write
\*   kind "other":   writes of several saves interleaved
\*   kind "foreign": what another program wrote under the key: no map
NoSrc == [kind |-> "none", map |-> EmptyMap, key |-> <<>>, by |-> NoTask]
SrcOf(kind, map, key, by) == [kind |-> kind, map |-> map, key |-> key, by |-> by]
\* a load between its two reads no longer reads one file content
Disturb(sn) == [u \in Tasks |-> IF pc[u] = "load_read_rest" THEN NoSrc ELSE sn[u]]
\* what the load of task t read: "match", one whole image written under the
\* key the load was given; "wrongkey", a whole image written under another
\* key; "corrupt", an image with a bit flipped; "foreign", bytes that are no
\* map, encrypted under the key the load was given; "other", anything else
SrcClass(t) ==
    IF seen[t].kind = "corrupt" THEN "corrupt"
    ELSE IF seen[t].kind = "foreign" /\ seen[t].key = arg[t].mkey THEN "foreign"
    ELSE IF seen[t].kind # "image" THEN "other"
    ELSE IF seen[t].key = arg[t].mkey THEN "match"
    ELSE "wrongkey"

NoneCommitted == [n \in Names |-> {<<>>}]

NoSplit == [phase |-> "off", secret |-> <<>>, shares |-> <<>>, picked |-> <<>>,
            out |-> [how |-> "", bytes |-> <<>>]]
NoCipher == [phase |-> "off", key |-> <<>>, pt |-> <<>>, iv |-> <<>>, ct |-> <<>>,
             dkey |-> <<>>, flipped |-> FALSE, out |-> [how |-> "", bytes |-> <<>>]]

NoShare == [x |-> 0, y |-> <<>>]
NoShareIO == [phase |-> "off", share |-> NoShare, bytes |-> <<>>,
              out |-> [ok |-> FALSE, share |-> NoShare, err |-> ""], back |-> <<>>]
NoGate == [phase |-> "off", granted |-> {}, calls |-> {},
           last |-> [op |-> "none", id |-> "", path |-> "", out |-> FALSE]]
\* the command-line program: the files it keeps (keyFile, dataFile), the run
\* under way (pc, cmd, key, granted, allowed, did, out), the runs still to
\* come, and (history) the key the first run used
NoMain == [pc |-> "off", runs |-> 0, cmd |-> "", key |-> <<>>,
           keyFile |-> [exists |-> FALSE, cells |-> <<>>],
           dataFile |-> [exists |-> FALSE, key |-> <<>>],
           granted |-> {}, allowed |-> "unknown", did |-> {}, out |-> "",
           firstKey |-> <<>>]

\* KVStore::new(), nothing called yet, no snapshot file
StoreStart(calls) ==
    /\ secrets = EmptyMap
    /\ lock = Unlocked
    /\ file = NoFile
    /\ pc = [t \in Tasks |-> "idle"]
    /\ arg = [t \in Tasks |-> NoArg]
    /\ loc = [t \in Tasks |-> NoLoc]
    /\ ret = [t \in Tasks |-> NoRet]
    /\ seen = [t \in Tasks |-> NoSrc]
    /\ fileSrc = NoSrc
    /\ committed = NoneCommitted
    /\ budget = calls
StoreInit == StoreStart(MaxCalls)

\* the same with fewer calls to come
InitLive ==
    /\ sp = NoSplit /\ ci = NoCipher /\ se = NoShareIO /\ ac = NoGate /\ cli = NoMain
    /\ StoreStart(MaxLiveCalls)

Init == StoreInit /\ sp = NoSplit /\ ci = NoCipher /\ se = NoShareIO /\ ac = NoGate /\ cli = NoMain

Goto(t, label) == pc' = [pc EXCEPT ![t] = label]
\* the call ends: its arguments and locals are gone, its result stays
Return(t, kind, val, why) ==
    /\ pc' = [pc EXCEPT ![t] = "idle"]
    /\ ret' = [ret EXCEPT ![t] = [op |-> arg[t].op, kind |-> kind, val |-> val, why |-> why,
                                  name |-> IF arg[t].op \in {"get", "set"} THEN arg[t].name ELSE "",
                                  src |-> IF arg[t].op = "load" THEN SrcClass(t) ELSE ""]]
    /\ arg' = [arg EXCEPT ![t] = NoArg]
    /\ loc' = [loc EXCEPT ![t] = NoLoc]

\* a task calls one of the store's operations; tasks are interchangeable, so
\* a new call goes to the first idle one
Call(t, a, first) ==
    /\ pc[t] = "idle"
    /\ \A u \in Tasks : u < t => pc[u] # "idle"
    /\ budget > 0
    /\ budget' = budget - 1
    /\ arg' = [arg EXCEPT ![t] = a]
    /\ loc' = [loc EXCEPT ![t] = NoLoc]
    /\ ret' = [ret EXCEPT ![t] = NoRet]
    /\ seen' = [seen EXCEPT ![t] = NoSrc]
    /\ Goto(t, first)
    /\ UNCHANGED <<aside, secrets, lock, file, fileSrc, committed>>

CallSet(t) ==
    \E n \in Names, r \in SecretInputs :
        Call(t, [op |-> "set", name |-> n, rec |-> r, mkey |-> <<>>], "set_lock")
CallGet(t) ==
    \E n \in Names :
        Call(t, [op |-> "get", name |-> n, rec |-> Secret(<<>>, <<>>), mkey |-> <<>>], "get_lock")
CallSave(t) ==
    \E k \in MasterKeys :
        Call(t, [op |-> "save", name |-> "a", rec |-> Secret(<<>>, <<>>), mkey |-> k], "save_lock")
CallLoad(t) ==
    \E k \in MasterKeys :
        Call(t, [op |-> "load", name |-> "a", rec |-> Secret(<<>>, <<>>), mkey |-> k], "load_open")

----------------------------------------------------------------------------
(* set_secret *)

\* self.secrets.write().await
SetLock(t) ==
    /\ pc[t] = "set_lock"
    /\ CanWrite(lock)
    /\ lock' = AcquireWrite(lock, t)
    /\ Goto(t, "set_insert")
    /\ UNCHANGED <<aside, secrets, file, arg, loc, ret, seen, fileSrc, committed, budget>>

\* secrets.insert(key, Secret { iv, encrypted_value }): the record is several
\* words of memory, written one after the other; the first half of the write
HalfWritten(m, k, v) ==
    Insert(m, k, Secret(v.iv, IF k \in DOMAIN m THEN m[k].encrypted_value ELSE <<>>))
SetInsertBegin(t) ==
    /\ pc[t] = "set_insert"
    /\ secrets' = HalfWritten(secrets, arg[t].name, arg[t].rec)
    /\ Goto(t, "set_insert_end")
    /\ UNCHANGED <<aside, lock, file, arg, loc, ret, seen, fileSrc, committed, budget>>

\* the insert done
SetInsertEnd(t) ==
    /\ pc[t] = "set_insert_end"
    /\ secrets' = Insert(secrets, arg[t].name, arg[t].rec)
    /\ Goto(t, "set_ret")
    /\ UNCHANGED <<aside, lock, file, arg, loc, ret, seen, fileSrc, committed, budget>>

\* Ok(()), the guard dropped
SetReturn(t) ==
    /\ pc[t] = "set_ret"
    /\ lock' = Release(lock, t)
    /\ Return(t, "Ok", <<>>, "")
    /\ committed' = [committed EXCEPT ![arg[t].name] = @ \cup {<<arg[t].rec>>}]
    /\ UNCHANGED <<aside, secrets, file, seen, fileSrc, budget>>

(* get_secret *)

\* self.secrets.read().await
GetLock(t) ==
    /\ pc[t] = "get_lock"
    /\ CanRead(lock)
    /\ lock' = AcquireRead(lock, t)
    /\ Goto(t, "get_read")
    /\ UNCHANGED <<aside, secrets, file, arg, loc, ret, seen, fileSrc, committed, budget>>

\* secrets.get(key).cloned(), the guard dropped
GetRead(t) ==
    /\ pc[t] = "get_read"
    /\ lock' = Release(lock, t)
    /\ Return(t, "Ok", Get(secrets, arg[t].name), "")
    /\ UNCHANGED <<aside, secrets, file, seen, fileSrc, committed, budget>>

----------------------------------------------------------------------------
(* save_to_file_encrypted *)

\* secrets.clone() copies the map entry by entry, in the map's iteration
\* order: the entries copied first, and the copy with the other entries added
CloneFirst(m, first) == [n \in (DOMAIN m) \cap {first} |-> m[n]]
CloneRest(copy, m, first) ==
    [n \in (DOMAIN copy) \cup ((DOMAIN m) \ {first}) |-> IF n \in DOMAIN copy THEN copy[n] ELSE m[n]]

\* self.secrets.read().await, the guard living to the end of the function;
\* the clone begins (old, history: the map when the lock was taken)
SaveLock(t) ==
    /\ pc[t] = "save_lock"
    /\ CanRead(lock)
    /\ lock' = AcquireRead(lock, t)
    /\ \E first \in Names :
          loc' = [loc EXCEPT ![t] = [@ EXCEPT !.old = secrets, !.map = CloneFirst(secrets, first),
                                               !.first = first]]
    /\ Goto(t, "save_clone")
    /\ UNCHANGED <<aside, secrets, file, arg, ret, seen, fileSrc, committed, budget>>

\* the clone ends; then serde_json::to_vec and encrypt_data, which touch
\* nothing but the call's own locals
SaveClone(t) ==
    /\ pc[t] = "save_clone"
    /\ LET copy == CloneRest(loc[t].map, secrets, loc[t].first)
       IN  \E order \in Orders(DOMAIN copy), iv \in Nonces :
              LET e == encrypt_data(arg[t].mkey, Serialize(copy, order), iv)
              IN  loc' = [loc EXCEPT ![t] = [@ EXCEPT !.map = copy, !.iv = e.iv, !.ct = e.ct]]
    /\ Goto(t, "save_create")
    /\ UNCHANGED <<aside, secrets, lock, file, arg, ret, seen, fileSrc, committed, budget>>

\* File::create(filename)?: the file exists and is empty; or Err, the guard
\* dropped, when the process may not open the file
SaveCreate(t) ==
    /\ pc[t] = "save_create"
    /\ IF file.denied
       THEN /\ lock' = Release(lock, t)
            /\ Return(t, "Err", <<>>, "create")
            /\ UNCHANGED <<file, fileSrc, seen>>
       ELSE /\ file' = [file EXCEPT !.exists = TRUE, !.cells = <<>>]
            /\ loc' = [loc EXCEPT ![t].off = 0]
            /\ fileSrc' = SrcOf("partial", EmptyMap, <<>>, t)
            /\ seen' = Disturb(seen)
            /\ Goto(t, "save_write_iv")
            /\ UNCHANGED <<lock, arg, ret>>
    /\ UNCHANGED <<aside, secrets, committed, budget>>

\* file.write_all(&iv)
SaveWriteIv(t) ==
    /\ pc[t] = "save_write_iv"
    /\ LET chunk == FirstChunk(loc[t].iv, loc[t].ct)
       IN  /\ file' = [file EXCEPT !.cells = WriteAt(@, loc[t].off, chunk)]
           /\ loc' = [loc EXCEPT ![t].off = @ + Len(chunk)]
    /\ fileSrc' = IF fileSrc.by = t THEN fileSrc ELSE SrcOf("other", EmptyMap, <<>>, NoTask)
    /\ seen' = Disturb(seen)
    /\ Goto(t, "save_write_data")
    /\ UNCHANGED <<aside, secrets, lock, arg, ret, committed, budget>>

\* file.write_all(&encrypted_data); Ok(()), the guard dropped
SaveWriteData(t) ==
    /\ pc[t] = "save_write_data"
    /\ LET chunk == SecondChunk(loc[t].iv, loc[t].ct)
       IN  file' = [file EXCEPT !.cells = WriteAt(@, loc[t].off, chunk)]
    /\ fileSrc' = IF fileSrc.by = t
                  THEN SrcOf("image", loc[t].map, arg[t].mkey, NoTask)
                  ELSE SrcOf("other", EmptyMap, <<>>, NoTask)
    /\ seen' = Disturb(seen)
    /\ lock' = Release(lock, t)
    /\ Return(t, "Ok", <<>>, "")
    /\ UNCHANGED <<aside, secrets, committed, budget>>

----------------------------------------------------------------------------
(* load_from_file_encrypted *)

LoadOpen_MissingIsError(t) ==
    /\ pc[t] = "load_open"
    /\ IF file.exists /\ ~file.denied
       THEN /\ Goto(t, "load_read_iv")
            /\ loc' = [loc EXCEPT ![t].off = 0]
            /\ UNCHANGED <<arg, ret>>
       ELSE Return(t, "Err", <<>>, IF file.exists THEN "denied" ELSE "nofile")
    /\ UNCHANGED <<aside, secrets, lock, file, seen, fileSrc, committed, budget>>
\* File::open(filename); Err(_) => return Ok(()), whatever the error: the
\* file is not there ("nofile"), or it is and may not be opened ("denied")
LoadOpen(t) ==
    /\ pc[t] = "load_open"
    /\ IF file.exists /\ ~file.denied
       THEN /\ Goto(t, "load_read_iv")
            /\ loc' = [loc EXCEPT ![t].off = 0]
            /\ UNCHANGED <<arg, ret>>
       ELSE Return(t, "Ok", <<>>, IF file.exists THEN "denied" ELSE "nofile")
    /\ UNCHANGED <<aside, secrets, lock, file, seen, fileSrc, committed, budget>>

\* file.read_exact(&mut iv)?
LoadReadIv(t) ==
    /\ pc[t] = "load_read_iv"
    /\ IF Len(file.cells) < NONCE_LEN
       THEN /\ Return(t, "Err", <<>>, "eof")
            /\ UNCHANGED seen
       ELSE /\ loc' = [loc EXCEPT ![t] = [@ EXCEPT !.iv = Vals(SubSeq(file.cells, 1, NONCE_LEN)),
                                                    !.off = NONCE_LEN]]
            /\ seen' = [seen EXCEPT ![t] = [fileSrc EXCEPT !.by = NoTask]]
            /\ Goto(t, "load_read_rest")
            /\ UNCHANGED <<arg, ret>>
    /\ UNCHANGED <<aside, secrets, lock, file, fileSrc, committed, budget>>

\* file.read_to_end(&mut encrypted_data)?, then decrypt_data and
\* serde_json::from_slice(&data)?, which touch nothing but the call's locals
LoadReadRest(t) ==
    /\ pc[t] = "load_read_rest"
    /\ LET ct == ReadFrom(file.cells, loc[t].off)
           d == decrypt_data(arg[t].mkey, loc[t].iv, ct)
           p == Deserialize(d.bytes)
       IN  IF d.how = "panic"
           THEN Return(t, "Panic", <<>>, "decryption failure!") /\ seen' = [seen EXCEPT ![t] = NoSrc]
           ELSE IF ~p.ok
           THEN Return(t, "Err", <<>>, "json") /\ seen' = [seen EXCEPT ![t] = NoSrc]
           ELSE /\ loc' = [loc EXCEPT ![t] = [@ EXCEPT !.ct = ct, !.map = p.map]]
                /\ Goto(t, "load_lock")
                /\ UNCHANGED <<arg, ret, seen>>
    /\ UNCHANGED <<aside, secrets, lock, file, fileSrc, committed, budget>>

\* self.secrets.write().await
LoadLock(t) ==
    /\ pc[t] = "load_lock"
    /\ CanWrite(lock)
    /\ lock' = AcquireWrite(lock, t)
    /\ Goto(t, "load_replace")
    /\ UNCHANGED <<aside, secrets, file, arg, loc, ret, seen, fileSrc, committed, budget>>

\* *secrets = persisted_secrets.secrets: the new map is moved in and the old
\* one dropped, several words of memory; in between, memory holds entries of
\* both
Mixture(old, new) ==
    [n \in (DOMAIN old) \cup (DOMAIN new) |-> IF n \in DOMAIN new THEN new[n] ELSE old[n]]
LoadReplaceBegin(t) ==
    /\ pc[t] = "load_replace"
    /\ loc' = [loc EXCEPT ![t].old = secrets]
    /\ secrets' = Mixture(secrets, loc[t].map)
    /\ Goto(t, "load_replace_end")
    /\ UNCHANGED <<aside, lock, file, arg, ret, seen, fileSrc, committed, budget>>

\* the assignment done
Replaced_Merges(old, new) == Mixture(old, new)
Replaced(old, new) == new
LoadReplaceEnd(t) ==
    /\ pc[t] = "load_replace_end"
    /\ secrets' = Replaced(secrets, loc[t].map)
    /\ Goto(t, "load_ret")
    /\ UNCHANGED <<aside, lock, file, arg, loc, ret, seen, fileSrc, committed, budget>>

\* Ok(()), the guard dropped
LoadReturn(t) ==
    /\ pc[t] = "load_ret"
    /\ lock' = Release(lock, t)
    /\ Return(t, "Ok", <<>>, "replaced")
    /\ seen' = [seen EXCEPT ![t] = NoSrc]
    /\ committed' = [n \in Names |-> committed[n] \cup {Get(loc[t].map, n)}]
    /\ UNCHANGED <<aside, secrets, file, fileSrc, budget>>

----------------------------------------------------------------------------
(* The environment *)

\* One bit of a stored snapshot flips on disk: in the nonce, in the
\* ciphertext body or in the tag.
CorruptAt(cells) == {1, NONCE_LEN + 1, Len(cells)}
FlipBit(cells, i, bit) == [cells EXCEPT ![i].b = Xor(@, bit)]
Corrupt ==
    /\ fileSrc.kind = "image"
    /\ ~file.denied
    /\ \E i \in CorruptAt(file.cells) :
          file' = [file EXCEPT !.cells = FlipBit(@, i, 1)]
    /\ fileSrc' = [fileSrc EXCEPT !.kind = "corrupt"]
    /\ seen' = Disturb(seen)
    /\ UNCHANGED <<aside, secrets, lock, pc, arg, loc, ret, committed, budget>>

\* The permissions of a stored snapshot change: the process may no longer
\* open it (handles already open stay usable).
Deny ==
    /\ fileSrc.kind = "image"
    /\ file.exists /\ ~file.denied
    /\ file' = [file EXCEPT !.denied = TRUE]
    /\ UNCHANGED <<aside, secrets, lock, pc, arg, loc, ret, seen, fileSrc, committed, budget>>

\* Where no snapshot is yet, another program that holds a master key leaves
\* a file of its own: nonce and ciphertext of bytes that are no serialized map.
NotAMap == <<123>>
ForeignKey == MkKey(3)
Foreign ==
    /\ ~file.exists
    /\ LET iv == MkNonce(9)
       IN  file' = [file EXCEPT !.exists = TRUE,
                                !.cells = Bytes(iv) \o encrypt_data(ForeignKey, NotAMap, iv).ct]
    /\ fileSrc' = SrcOf("foreign", EmptyMap, ForeignKey, NoTask)
    /\ UNCHANGED <<aside, secrets, lock, pc, arg, loc, ret, seen, committed, budget>>

\* The process ends and a new one starts: KVStore::new(), the file stays.
Restart ==
    /\ \A t \in Tasks : pc[t] = "idle"
    /\ secrets # EmptyMap
    /\ secrets' = EmptyMap
    /\ lock' = Unlocked
    /\ arg' = [t \in Tasks |-> NoArg]
    /\ loc' = [t \in Tasks |-> NoLoc]
    /\ ret' = [t \in Tasks |-> NoRet]
    /\ seen' = [t \in Tasks |-> NoSrc]
    /\ committed' = NoneCommitted
    /\ UNCHANGED <<aside, file, pc, fileSrc, budget>>

Next ==
    \/ \E t \in Tasks : CallSet(t)
    \/ \E t \in Tasks : CallGet(t)
    \/ \E t \in Tasks : CallSave(t)
    \/ \E t \in Tasks : CallLoad(t)
    \/ \E t \in Tasks : SetLock(t)
    \/ \E t \in Tasks : SetInsertBegin(t)
    \/ \E t \in Tasks : SetInsertEnd(t)
    \/ \E t \in Tasks : SetReturn(t)
    \/ \E t \in Tasks : GetLock(t)
    \/ \E t \in Tasks : GetRead(t)
    \/ \E t \in Tasks : SaveLock(t)
    \/ \E t \in Tasks : SaveClone(t)
    \/ \E t \in Tasks : SaveCreate(t)
    \/ \E t \in Tasks : SaveWriteIv(t)
    \/ \E t \in Tasks : SaveWriteData(t)
    \/ \E t \in Tasks : LoadOpen(t)
    \/ \E t \in Tasks : LoadReadIv(t)
    \/ \E t \in Tasks : LoadReadRest(t)
    \/ \E t \in Tasks : LoadLock(t)
    \/ \E t \in Tasks : LoadReplaceBegin(t)
    \/ \E t \in Tasks : LoadReplaceEnd(t)
    \/ \E t \in Tasks : LoadReturn(t)
    \/ Corrupt
    \/ Deny
    \/ Foreign
    \/ Restart

Spec == Init /\ [][Next]_vars

\* a step of the call task t is in
TaskStep(t) ==
    \/ SetLock(t) \/ SetInsertBegin(t) \/ SetInsertEnd(t) \/ SetReturn(t)
    \/ GetLock(t) \/ GetRead(t)
    \/ SaveLock(t) \/ SaveClone(t) \/ SaveCreate(t) \/ SaveWriteIv(t) \/ SaveWriteData(t)
    \/ LoadOpen(t) \/ LoadReadIv(t) \/ LoadReadRest(t)
    \/ LoadLock(t) \/ LoadReplaceBegin(t) \/ LoadReplaceEnd(t) \/ LoadReturn(t)

\* The tokio runtime polls every task that can run, file I/O finishes, and
\* the RwLock serves its waiters in the order they arrived: a task that can
\* take a step again and again takes it.
SpecLive == InitLive /\ [][Next]_vars /\ \A t \in Tasks : SF_vars(TaskStep(t))

----------------------------------------------------------------------------
(* The store: claims checked under Spec *)

Writing(t) == pc[t] \in {"set_insert", "set_insert_end", "set_ret",
                         "load_replace", "load_replace_end", "load_ret"}
Reading(t) == pc[t] \in {"get_read", "save_clone", "save_create", "save_write_iv", "save_write_data"}
\* task t takes a step of its call
Steps(t) == pc'[t] # pc[t]

\* C1: persistence round-trip. A load that reads one whole image, written by
\* a save of map M under key K with no other write to the file, and that is
\* given the same key K, does not fail, and when its replacement is done the
\* in-memory map is exactly M (names, nonce and ciphertext per name).
C1_RoundTrip ==
    \A t \in Tasks :
        /\ (arg[t].op = "load" /\ pc[t] = "load_ret" /\ SrcClass(t) = "match")
              => secrets = seen[t].map
        /\ (ret[t].op = "load" /\ ret[t].src = "match")
              => (ret[t].kind = "Ok" /\ ret[t].why = "replaced")
\* a fresh (empty) store has loaded a populated snapshot
C1_Witness ==
    \E t \in Tasks :
        /\ pc[t] = "load_ret" /\ SrcClass(t) = "match"
        /\ loc[t].old = EmptyMap
        /\ seen[t].map # EmptyMap
        /\ secrets = seen[t].map

\* C2: a load of a present snapshot that does not authenticate under the key
\* given (an image written under another key, or an image corrupted after it
\* was written) does not return success, never reaches the replacement of
\* the map, and no step of the call changes the map.
C2_State ==
    \A t \in Tasks :
        /\ (arg[t].op = "load" /\ SrcClass(t) \in {"wrongkey", "corrupt"})
              => pc[t] = "load_read_rest"
        /\ (ret[t].op = "load" /\ ret[t].src \in {"wrongkey", "corrupt"})
              => (ret[t].kind # "Ok" /\ ret[t].why = "decryption failure!")
C2_Step ==
    \A t \in Tasks :
        (arg[t].op = "load" /\ SrcClass(t) \in {"wrongkey", "corrupt"} /\ Steps(t))
            => secrets' = secrets
C2_AuthFailureIsFatal == []C2_State /\ [][C2_Step]_vars
\* a populated store was saved, the image was corrupted, and the load of it
\* under the key of the save ended without success, the store still populated
C2_Witness ==
    /\ secrets # EmptyMap
    /\ fileSrc.kind = "corrupt" /\ fileSrc.map = secrets
    /\ \E t \in Tasks :
          ret[t].op = "load" /\ ret[t].src = "corrupt" /\ ret[t].kind # "Ok"

\* C3: a load on a path where no file exists returns Ok at once and leaves
\* the map as it is, whatever the map holds.
C3_Step ==
    \A t \in Tasks :
        (pc[t] = "load_open" /\ Steps(t) /\ ~file.exists)
            => /\ pc'[t] = "idle"
               /\ ret'[t].op = "load" /\ ret'[t].kind = "Ok" /\ ret'[t].why = "nofile"
               /\ secrets' = secrets
C3_MissingFileIsNoOp == [][C3_Step]_vars
\* it happened on a populated store
C3_Witness ==
    /\ secrets # EmptyMap
    /\ \E t \in Tasks : ret[t].op = "load" /\ ret[t].why = "nofile" /\ ret[t].kind = "Ok"

\* C4: a successful load replaces the whole map, no merge: when the
\* replacement is done the map is exactly the snapshot's map (the map of the
\* image when the load read one whole image), every name that was in memory
\* and is not in the snapshot is gone, and while the map holds entries of
\* both no get holds the lock.
C4_ReplaceIsWhole ==
    \A t \in Tasks :
        /\ pc[t] = "load_ret" =>
              /\ secrets = loc[t].map
              /\ \A n \in (DOMAIN loc[t].old) \ (DOMAIN loc[t].map) : n \notin DOMAIN secrets
              /\ SrcClass(t) = "match" => secrets = seen[t].map
        /\ pc[t] = "load_replace_end" => \A u \in Tasks : pc[u] # "get_read"
\* a name that was in memory and is not in the snapshot
C4_Witness ==
    \E t \in Tasks :
        /\ pc[t] = "load_ret"
        /\ (DOMAIN loc[t].old) \ (DOMAIN loc[t].map) # {}

\* C5: set and get. When set(name, r) has inserted, the map gives exactly r
\* for name; a step of set changes no other name; the value of a name
\* changes only in a set on that name, in the replacement of a load, or when
\* the process restarts; get returns the record of the name, or nothing when
\* the name is not in the map, and changes nothing.
C5_State ==
    \A t \in Tasks : pc[t] = "set_ret" => Get(secrets, arg[t].name) = <<arg[t].rec>>
C5_Step ==
    /\ \A t \in Tasks :
          (arg[t].op = "set" /\ Steps(t))
             => \A n \in Names \ {arg[t].name} : Get(secrets', n) = Get(secrets, n)
    /\ \A t \in Tasks :
          (pc[t] = "get_read" /\ Steps(t))
             => /\ secrets' = secrets
                /\ ret'[t].op = "get"
                /\ ret'[t].val = (IF arg[t].name \in DOMAIN secrets
                                  THEN <<secrets[arg[t].name]>> ELSE <<>>)
    /\ \A n \in Names :
          Get(secrets', n) # Get(secrets, n)
             => \/ \E t \in Tasks : arg[t].op = "set" /\ arg[t].name = n /\ Steps(t)
                \/ \E t \in Tasks : pc[t] \in {"load_replace", "load_replace_end"} /\ Steps(t)
                \/ (\A t \in Tasks : pc[t] = "idle") /\ secrets' = EmptyMap
C5_SetGet == []C5_State /\ [][C5_Step]_vars
\* a get returned a record while a set on another name had inserted
C5_Witness ==
    \E t, u \in Tasks :
        /\ ret[t].op = "get" /\ ret[t].val # <<>>
        /\ pc[u] = "set_ret" /\ arg[u].name # ret[t].name
        /\ Get(secrets, ret[t].name) = ret[t].val

\* C6: writes are exclusive (a task that writes the map holds the lock alone;
\* readers may hold it together), and every get returns, for its name, a
\* value that one completed set or load gave that name (or nothing, when
\* that is what the name had): never a mixture of two writes, never a value
\* of a write still under way.
C6_ExclusiveWrites ==
    /\ \A t, u \in Tasks : (t # u /\ Writing(t)) => ~(Writing(u) \/ Reading(u))
    /\ \A t \in Tasks : Writing(t) => (lock.w = t /\ lock.r = {})
    /\ \A t \in Tasks : Reading(t) => (lock.w = NoTask /\ t \in lock.r)
    /\ \A t \in Tasks : ret[t].op = "get" => ret[t].val \in committed[ret[t].name]
\* two readers hold the lock together, after a get returned a record
C6_Witness ==
    \E t, u \in Tasks :
        /\ t # u /\ Reading(t) /\ Reading(u)
        /\ pc[t] = "get_read" /\ Get(secrets, arg[t].name) # <<>>

\* C15 as claimed: a save holds the read lock only while it copies the map;
\* while it creates and writes the file it does not hold the lock (so that a
\* set or the replacement of a load can take the write lock meanwhile).
C15_SaveWritesUnlocked ==
    \A t \in Tasks :
        pc[t] \in {"save_create", "save_write_iv", "save_write_data"} => t \notin lock.r

\* C16: nothing blocks for ever. Under SpecLive every call that was started
\* ends (it returns, or it panics, which ends it too); a lock is held only by
\* a task inside a call, so every lock taken is given back; and whenever a
\* call is under way some call can take a step.
Busy(t) == pc[t] # "idle"
Holds(t) == lock.w = t \/ t \in lock.r
C16_NoDeadlock ==
    /\ (\E t \in Tasks : Busy(t)) => (\E t \in Tasks : ENABLED TaskStep(t))
    /\ \A t \in Tasks : Holds(t) => Busy(t)
C16_NothingBlocksForEver ==
    /\ []C16_NoDeadlock
    /\ \A t \in Tasks : Busy(t) ~> ~Busy(t)
\* a set waits for the write lock while a save, holding the read lock, is
\* writing its file
C16_Witness ==
    \E t, u \in Tasks :
        /\ pc[t] = "set_lock" /\ ~CanWrite(lock) /\ ~ENABLED TaskStep(t)
        /\ pc[u] = "save_write_data" /\ u \in lock.r

\* C19: a load that ends in an error has not touched the map. The steps of a
\* load before its write lock change neither the map nor the lock; a load
\* ends in an error only at the read of the nonce or at the read, decryption
\* and parsing of the rest, the lock not taken; a file shorter than the nonce
\* and a file whose plaintext is no map end the load there.
C19_State ==
    \A t \in Tasks :
        /\ (arg[t].op = "load" /\ SrcClass(t) = "foreign") => pc[t] = "load_read_rest"
        /\ (ret[t].op = "load" /\ ret[t].src = "foreign")
              => (ret[t].kind = "Err" /\ ret[t].why = "json")
        /\ (ret[t].op = "load" /\ ret[t].kind # "Ok")
              => ret[t].why \in {"eof", "json", "decryption failure!"}
C19_Step ==
    \A t \in Tasks :
        (arg[t].op = "load" /\ Steps(t)) =>
            /\ pc[t] \in {"load_open", "load_read_iv", "load_read_rest"}
                  => (secrets' = secrets /\ lock' = lock)
            /\ (pc'[t] = "idle" /\ ret'[t].kind # "Ok")
                  => /\ pc[t] \in {"load_read_iv", "load_read_rest"}
                     /\ ~Holds(t)
                     /\ secrets' = secrets
            /\ (pc[t] = "load_read_iv" /\ Len(file.cells) < NONCE_LEN)
                  => (pc'[t] = "idle" /\ ret'[t].kind = "Err" /\ ret'[t].why = "eof")
C19_FailedLoadKeepsMap == []C19_State /\ [][C19_Step]_vars
\* on a populated store, a load of a file whose plaintext is no map ended
\* in the parse error, the store still populated
C19_Witness ==
    /\ secrets # EmptyMap
    /\ \E t \in Tasks : ret[t].op = "load" /\ ret[t].src = "foreign" /\ ret[t].why = "json"
\* on a populated store, a load of a file shorter than the nonce ended in Err
C19_WitnessShort ==
    /\ secrets # EmptyMap
    /\ \E t \in Tasks : ret[t].op = "load" /\ ret[t].kind = "Err" /\ ret[t].why = "eof"

\* C20: what a save persists is the map of one instant. When the copy is
\* made it is the map as it stood when the read lock was taken, nothing
\* being written at that instant or during the copy (every record in it is
\* one a completed set or load gave its name); the bytes the save writes
\* decrypt and parse to that map, and so does the file when the save has
\* written it alone; no step of a save changes the in-memory map.
SaveWrites(t) == pc[t] \in {"save_create", "save_write_iv", "save_write_data"}
Persisted(key, iv, ct) == Deserialize(decrypt_data(key, iv, ct).bytes)
C20_State ==
    /\ \A t \in Tasks :
          SaveWrites(t) =>
              /\ loc[t].map = loc[t].old
              /\ \A n \in Names : Get(loc[t].map, n) \in committed[n]
              /\ Persisted(arg[t].mkey, loc[t].iv, loc[t].ct) = [ok |-> TRUE, map |-> loc[t].old]
    /\ \A t \in Tasks : pc[t] = "save_clone" => (secrets = loc[t].old /\ lock.w = NoTask)
    /\ fileSrc.kind = "image" =>
          Persisted(fileSrc.key, Vals(SubSeq(file.cells, 1, NONCE_LEN)), ReadFrom(file.cells, NONCE_LEN))
              = [ok |-> TRUE, map |-> fileSrc.map]
C20_Step ==
    \A t \in Tasks :
        (arg[t].op = "save" /\ Steps(t)) =>
            /\ secrets' = secrets
            /\ pc[t] = "save_lock" => (loc'[t].old = secrets /\ \A u \in Tasks : ~Writing(u))
            /\ SaveWrites(t) /\ pc'[t] # "idle" => loc'[t].map = loc[t].map
C20_SaveIsSnapshot == []C20_State /\ [][C20_Step]_vars
\* a save is writing a populated map while the other task waits to set
\* another record for a name in it
C20_Witness ==
    \E t, u \in Tasks :
        /\ pc[t] = "save_write_data" /\ loc[t].map = secrets
        /\ pc[u] = "set_lock" /\ arg[u].name \in DOMAIN loc[t].map
        /\ arg[u].rec # loc[t].map[arg[u].name]

\* C13 as claimed: a load whose snapshot file is there and cannot be opened
\* returns an error to the caller; the only load that returns Ok without
\* replacing the map is one that found no file.
C13_UnreadableIsError ==
    \A t \in Tasks :
        ret[t].op = "load" =>
            /\ ret[t].why = "denied" => ret[t].kind = "Err"
            /\ (ret[t].kind = "Ok" /\ ret[t].why # "replaced") => ret[t].why = "nofile"

----------------------------------------------------------------------------
(* GF(256) as the sharks crate computes it: Rijndael's polynomial, tables  *)
(* of powers and logarithms of the generator 3                             *)

\* EXP_TABLE[i + 1] is 3^i, LOG_TABLE[a] is the i with 3^i = a (a in 1..255)
EXP_TABLE == <<
    1, 3, 5, 15, 17, 51, 85, 255, 26, 46, 114, 150, 161, 248, 19, 53,
    95, 225, 56, 72, 216, 115, 149, 164, 247, 2, 6, 10, 30, 34, 102, 170,
    229, 52, 92, 228, 55, 89, 235, 38, 106, 190, 217, 112, 144, 171, 230, 49,
    83, 245, 4, 12, 20, 60, 68, 204, 79, 209, 104, 184, 211, 110, 178, 205,
    76, 212, 103, 169, 224, 59, 77, 215, 98, 166, 241, 8, 24, 40, 120, 136,
    131, 158, 185, 208, 107, 189, 220, 127, 129, 152, 179, 206, 73, 219, 118, 154,
    181, 196, 87, 249, 16, 48, 80, 240, 11, 29, 39, 105, 187, 214, 97, 163,
    254, 25, 43, 125, 135, 146, 173, 236, 47, 113, 147, 174, 233, 32, 96, 160,
    251, 22, 58, 78, 210, 109, 183, 194, 93, 231, 50, 86, 250, 21, 63, 65,
    195, 94, 226, 61, 71, 201, 64, 192, 91, 237, 44, 116, 156, 191, 218, 117,
    159, 186, 213, 100, 172, 239, 42, 126, 130, 157, 188, 223, 122, 142, 137, 128,
    155, 182, 193, 88, 232, 35, 101, 175, 234, 37, 111, 177, 200, 67, 197, 84,
    252, 31, 33, 99, 165, 244, 7, 9, 27, 45, 119, 153, 176, 203, 70, 202,
    69, 207, 74, 222, 121, 139, 134, 145, 168, 227, 62, 66, 198, 81, 243, 14,
    18, 54, 90, 238, 41, 123, 141, 140, 143, 138, 133, 148, 167, 242, 13, 23,
    57, 75, 221, 124, 132, 151, 162, 253, 28, 36, 108, 180, 199, 82, 246 >>
LOG_TABLE == <<
    0, 25, 1, 50, 2, 26, 198, 75, 199, 27, 104, 51, 238, 223, 3, 100,
    4, 224, 14, 52, 141, 129, 239, 76, 113, 8, 200, 248, 105, 28, 193, 125,
    194, 29, 181, 249, 185, 39, 106, 77, 228, 166, 114, 154, 201, 9, 120, 101,
    47, 138, 5, 33, 15, 225, 36, 18, 240, 130, 69, 53, 147, 218, 142, 150,
    143, 219, 189, 54, 208, 206, 148, 19, 92, 210, 241, 64, 70, 131, 56, 102,
    221, 253, 48, 191, 6, 139, 98, 179, 37, 226, 152, 34, 136, 145, 16, 126,
    110, 72, 195, 163, 182, 30, 66, 58, 107, 40, 84, 250, 133, 61, 186, 43,
    121, 10, 21, 155, 159, 94, 202, 78, 212, 172, 229, 243, 115, 167, 87, 175,
    88, 168, 80, 244, 234, 214, 116, 79, 174, 233, 213, 231, 230, 173, 232, 44,
    215, 117, 122, 235, 22, 11, 245, 89, 203, 95, 176, 156, 169, 81, 160, 127,
    12, 246, 111, 23, 196, 73, 236, 216, 67, 31, 45, 164, 118, 123, 183, 204,
    187, 62, 90, 251, 96, 177, 134, 59, 82, 161, 108, 170, 85, 41, 157, 151,
    178, 135, 144, 97, 190, 220, 252, 188, 149, 207, 205, 55, 63, 91, 209, 83,
    57, 132, 60, 65, 162, 109, 71, 20, 42, 158, 93, 86, 242, 211, 171, 68,
    17, 146, 217, 35, 32, 46, 137, 180, 124, 184, 38, 119, 153, 227, 165, 103,
    74, 237, 222, 197, 49, 254, 24, 13, 99, 140, 128, 192, 247, 112, 7 >>

GFAdd(a, b) == Xor(a, b)
GFSub(a, b) == Xor(a, b)
GFMul(a, b) ==
    IF a = 0 \/ b = 0 THEN 0 ELSE EXP_TABLE[((LOG_TABLE[a] + LOG_TABLE[b]) % 255) + 1]
\* used with b # 0 only
GFDiv(a, b) ==
    IF a = 0 THEN 0 ELSE EXP_TABLE[((255 + LOG_TABLE[a] - LOG_TABLE[b]) % 255) + 1]

RECURSIVE GFSum(_)
GFSum(s) == IF s = <<>> THEN 0 ELSE GFAdd(Head(s), GFSum(Tail(s)))
RECURSIVE GFProduct(_)
GFProduct(s) == IF s = <<>> THEN 1 ELSE GFMul(Head(s), GFProduct(Tail(s)))

----------------------------------------------------------------------------
(* split_dek / reconstruct_dek *)

SplitThreshold_Four == 3 + 1
SplitThreshold == 3         \* Sharks(3) in split_dek
RecoverThreshold == 3       \* Sharks(3) in reconstruct_dek
NUM_SHARES == 5             \* dealer.take(5)

\* Horner's rule over the coefficients, the highest first:
\* p.iter().fold(GF256(0), |acc, c| acc * x + c)
RECURSIVE Fold(_, _, _)
Fold(acc, p, x) ==
    IF p = <<>> THEN acc ELSE Fold(GFAdd(GFMul(acc, x), Head(p)), Tail(p), x)

\* Sharks(k).dealer(dek).take(5): for every byte of the secret a polynomial
\* of degree k - 1, its k - 1 upper coefficients random in 1..255 (coeffs[i]),
\* its constant term the byte; share x is every polynomial's value at x.
Dealer(k, dek, coeffs) ==
    [x \in 1..NUM_SHARES |->
        [x |-> x, y |-> [i \in 1..Len(dek) |-> Fold(0, coeffs[i] \o <<dek[i]>>, x)]]]
split_dek(dek, coeffs) == Dealer(SplitThreshold, dek, coeffs)

\* math::interpolate: Lagrange's formula at 0, byte by byte; the product
\* skips the shares whose x equals s_i's, the sum takes every share.
RECURSIVE WithoutX(_, _)
WithoutX(shares, x) ==
    IF shares = <<>> THEN <<>>
    ELSE IF Head(shares).x # x THEN <<Head(shares)>> \o WithoutX(Tail(shares), x)
    ELSE WithoutX(Tail(shares), x)
Basis(shares, i) ==
    LET others == WithoutX(shares, shares[i].x)
    IN  GFProduct([j \in 1..Len(others) |-> GFDiv(others[j].x, GFSub(others[j].x, shares[i].x))])
Interpolate(shares) ==
    [b \in 1..Len(shares[1].y) |->
        GFSum([i \in 1..Len(shares) |-> GFMul(Basis(shares, i), shares[i].y[b])])]

\* Sharks(k).recover(&shares): Err when a share's length differs from the
\* first one's or when fewer than k distinct x are given, else the
\* interpolation of all the shares given.
Recover(k, shares) ==
    IF \E i \in 1..Len(shares) : Len(shares[i].y) # Len(shares[1].y)
    THEN [ok |-> FALSE, bytes |-> <<>>, err |-> "All shares must have the same length"]
    ELSE IF Cardinality({shares[i].x : i \in 1..Len(shares)}) < k
    THEN [ok |-> FALSE, bytes |-> <<>>, err |-> "Not enough shares to recover original secret"]
    ELSE [ok |-> TRUE, bytes |-> Interpolate(shares), err |-> ""]

\* reconstruct_dek: the bytes, or a panic from expect("Failed to recover
\* DEK"). There is no error value: the function returns Vec<u8>.
reconstruct_dek(shares) ==
    LET r == Recover(RecoverThreshold, shares)
    IN  IF r.ok THEN [how |-> "ret", bytes |-> r.bytes] ELSE [how |-> "panic", bytes |-> <<>>]

----------------------------------------------------------------------------
(* SpecSplit: one secret is split, a collection of the shares (some twice, *)
(* some malformed) is handed to reconstruct_dek                            *)

MaxPick == 5        \* shares in the collection handed to reconstruct_dek

\* the 32-byte master key of main.rs, and shorter secrets
Key32 == [i \in 1..KEY_LEN |-> (i * 29 + 5) % 256]
Secrets == {<<>>, <<0>>, <<201>>, <<77, 255>>, Key32}

\* what the dealer's rng draws: per byte of the secret, k - 1 coefficients
\* in 1..255
RngSeeds == {1, 2, 3}
Draw(seed, k, len) ==
    [i \in 1..len |-> [j \in 1..(k - 1) |-> 1 + ((seed * 37 + i * 91 + j * 53) % 255)]]

\* The shares a caller can hand in: 1..5 are the dealt ones; 0 and 6 are the
\* first and the last dealt share with one byte more in y.
Longer(share) == [share EXCEPT !.y = @ \o <<0>>]
PoolIds == 0..(NUM_SHARES + 1)
PoolShare(shares, id) ==
    IF id = 0 THEN Longer(shares[1])
    ELSE IF id = NUM_SHARES + 1 THEN Longer(shares[NUM_SHARES])
    ELSE shares[id]
Picked(state) == [i \in 1..Len(state.picked) |-> PoolShare(state.shares, state.picked[i])]

InitSplit ==
    /\ StoreInit
    /\ ci = NoCipher /\ se = NoShareIO /\ ac = NoGate /\ cli = NoMain
    /\ \E s \in Secrets : sp = [NoSplit EXCEPT !.phase = "start", !.secret = s]

\* split_dek(dek)
Split ==
    /\ sp.phase = "start"
    /\ \E seed \in RngSeeds :
          sp' = [sp EXCEPT !.phase = "dealt",
                           !.shares = split_dek(sp.secret, Draw(seed, SplitThreshold, Len(sp.secret)))]
    /\ UNCHANGED <<store, ci, se, ac, cli>>

\* the caller adds a share to the Vec<Share> (in the order of the pool)
Pick ==
    /\ sp.phase = "dealt"
    /\ Len(sp.picked) < MaxPick
    /\ \E id \in PoolIds :
          /\ (sp.picked # <<>> => id >= sp.picked[Len(sp.picked)])
          /\ sp' = [sp EXCEPT !.picked = Append(@, id)]
    /\ UNCHANGED <<store, ci, se, ac, cli>>

\* reconstruct_dek(shares)
Reconstruct ==
    /\ sp.phase = "dealt"
    /\ sp' = [sp EXCEPT !.phase = "done", !.out = reconstruct_dek(Picked(sp))]
    /\ UNCHANGED <<store, ci, se, ac, cli>>

NextSplit == Split \/ Pick \/ Reconstruct
SpecSplit == InitSplit /\ [][NextSplit]_vars

\* the collection: dealt shares only, each at most once
DealtOnce(ids) ==
    /\ \A i \in 1..Len(ids) : ids[i] \in 1..NUM_SHARES
    /\ \A i, j \in 1..Len(ids) : i # j => ids[i] # ids[j]
SameX(shares) == \E i, j \in 1..Len(shares) : i # j /\ shares[i].x = shares[j].x
LengthsDiffer(shares) == \E i, j \in 1..Len(shares) : Len(shares[i].y) # Len(shares[j].y)

\* C7: reconstruct_dek on any 3 or more different shares of split_dek(S)
\* returns exactly S (so any two such subsets give the same bytes).
C7_AnyThreeReconstruct ==
    (sp.phase = "done" /\ DealtOnce(sp.picked) /\ Len(sp.picked) >= 3)
        => sp.out = [how |-> "ret", bytes |-> sp.secret]
\* the 32-byte key, from shares {2, 4, 5}
C7_Witness ==
    /\ sp.phase = "done" /\ sp.picked = <<2, 4, 5>>
    /\ sp.secret = Key32 /\ sp.out.how = "ret" /\ sp.out.bytes = Key32

\* C8 as claimed: reconstruct on fewer than 3 shares (also none) gives the
\* caller a ReconstructionError value and no key bytes.
C8_FewSharesReturnError ==
    (sp.phase = "done" /\ Len(sp.picked) < 3)
        => (sp.out.how = "err" /\ sp.out.bytes = <<>>)

\* C9 as claimed: reconstruct on 3 or more shares of which two have the same
\* x, or whose y differ in length, gives the caller a ReconstructionError
\* value, and never bytes that differ from the secret.
C9_BadSharesReturnError ==
    (sp.phase = "done" /\ Len(sp.picked) >= 3
                       /\ (SameX(Picked(sp)) \/ LengthsDiffer(Picked(sp))))
        => (sp.out.how = "err" /\ sp.out.bytes = <<>>)

----------------------------------------------------------------------------
(* SpecCipher: encrypt_data, possibly one bit of the ciphertext flipped,   *)
(* decrypt_data under some key                                             *)

MaxPlainLen == 2    \* bytes of plaintext
PlainBytes == {0, 65}
Plaintexts == UNION {[1..n -> PlainBytes] : n \in 0..MaxPlainLen}
Bits == {1, 2, 4, 8, 16, 32, 64, 128}

InitCipher ==
    /\ StoreInit
    /\ sp = NoSplit /\ se = NoShareIO /\ ac = NoGate /\ cli = NoMain
    /\ \E k \in MasterKeys, p \in Plaintexts :
          ci = [NoCipher EXCEPT !.phase = "start", !.key = k, !.pt = p]

\* encrypt_data(key, plaintext), OsRng filling the nonce
Encrypt ==
    /\ ci.phase = "start"
    /\ \E iv \in Nonces :
          LET e == encrypt_data(ci.key, ci.pt, iv)
          IN  ci' = [ci EXCEPT !.phase = "sealed", !.iv = e.iv, !.ct = e.ct]
    /\ UNCHANGED <<store, sp, se, ac, cli>>

\* one bit of the ciphertext (body or tag) flips
Tamper ==
    /\ ci.phase = "sealed"
    /\ ~ci.flipped
    /\ \E i \in 1..Len(ci.ct), bit \in Bits :
          ci' = [ci EXCEPT !.ct = FlipBit(@, i, bit), !.flipped = TRUE]
    /\ UNCHANGED <<store, sp, se, ac, cli>>

\* decrypt_data(key', iv, ciphertext)
Decrypt ==
    /\ ci.phase = "sealed"
    /\ \E k \in MasterKeys :
          ci' = [ci EXCEPT !.phase = "opened", !.dkey = k,
                           !.out = decrypt_data(k, ci.iv, ci.ct)]
    /\ UNCHANGED <<store, sp, se, ac, cli>>

NextCipher == Encrypt \/ Tamper \/ Decrypt
SpecCipher == InitCipher /\ [][NextCipher]_vars

\* C11: cipher round trip. decrypt_data under the key of encrypt_data, on the
\* nonce and the ciphertext encrypt_data returned, nothing changed in
\* between, returns exactly the plaintext, the empty one too, whatever nonce
\* was drawn.
C11_CipherRoundTrip ==
    (ci.phase = "opened" /\ ci.dkey = ci.key /\ ~ci.flipped)
        => ci.out = [how |-> "ret", bytes |-> ci.pt]
\* the empty plaintext came back
C11_Witness ==
    /\ ci.phase = "opened" /\ ci.dkey = ci.key /\ ~ci.flipped
    /\ ci.pt = <<>> /\ Len(ci.ct) = 1 /\ ci.out = [how |-> "ret", bytes |-> <<>>]
\* a plaintext of the greatest length came back
C11_WitnessLong ==
    /\ ci.phase = "opened" /\ ci.dkey = ci.key /\ ~ci.flipped
    /\ Len(ci.pt) = MaxPlainLen /\ ci.ct # Bytes(ci.pt) \o <<ci.ct[Len(ci.ct)]>>
    /\ ci.out.bytes = ci.pt

\* C10 as claimed: decrypt under another key, or of a ciphertext with one
\* bit flipped, gives the caller an IntegrityError value and no plaintext.
C10_BadDecryptReturnsError ==
    (ci.phase = "opened" /\ (ci.dkey # ci.key \/ ci.flipped))
        => (ci.out.how = "err" /\ ci.out.bytes = <<>>)

----------------------------------------------------------------------------
(* SpecShare: ShareSerialization for Share, to_bytes and from_bytes on a   *)
(* share or on a byte string                                               *)

MaxYLen == 2        \* bytes of a share's y (a byte string has one more)
ShareBytes == {0, 7, 255}
ShareInputs ==
    {[x |-> x, y |-> y] : x \in {1, 255}, y \in UNION {[1..n -> {0, 7}] : n \in 0..MaxYLen}}
ByteInputs == UNION {[1..n -> ShareBytes] : n \in 0..(MaxYLen + 1)}

\* to_bytes: push x, then extend with the bytes of y
to_bytes(share) == <<share.x>> \o share.y

from_bytes_KeepsX(bytes) ==
    IF Len(bytes) < 1 + 1
    THEN [ok |-> FALSE, share |-> NoShare, err |-> "Not enough data to form a Share"]
    ELSE [ok |-> TRUE, share |-> [x |-> bytes[1], y |-> bytes], err |-> ""]
\* from_bytes: Err below two bytes; else x is bytes[0] and y is bytes[1..]
from_bytes(bytes) ==
    IF Len(bytes) < 1 + 1
    THEN [ok |-> FALSE, share |-> NoShare, err |-> "Not enough data to form a Share"]
    ELSE [ok |-> TRUE, share |-> [x |-> bytes[1], y |-> SubSeq(bytes, 2, Len(bytes))], err |-> ""]

InitShare ==
    /\ StoreInit
    /\ sp = NoSplit /\ ci = NoCipher /\ ac = NoGate /\ cli = NoMain
    /\ \/ \E s \in ShareInputs : se = [NoShareIO EXCEPT !.phase = "share", !.share = s]
       \/ \E b \in ByteInputs : se = [NoShareIO EXCEPT !.phase = "bytes", !.bytes = b]

\* share.to_bytes()
ToBytes ==
    /\ se.phase = "share"
    /\ se' = [se EXCEPT !.phase = "encoded", !.bytes = to_bytes(se.share)]
    /\ UNCHANGED <<store, sp, ci, ac, cli>>

\* Share::from_bytes(&bytes), on a byte string or on what to_bytes gave
FromBytes ==
    /\ se.phase \in {"bytes", "encoded"}
    /\ se' = [se EXCEPT !.phase = IF se.phase = "encoded" THEN "decoded" ELSE "parsed",
                        !.out = from_bytes(se.bytes)]
    /\ UNCHANGED <<store, sp, ci, ac, cli>>

\* to_bytes() of the share from_bytes gave
ToBytesBack ==
    /\ se.phase = "parsed" /\ se.out.ok
    /\ se' = [se EXCEPT !.phase = "reencoded", !.back = to_bytes(se.out.share)]
    /\ UNCHANGED <<store, sp, ci, ac, cli>>

NextShare == ToBytes \/ FromBytes \/ ToBytesBack
SpecShare == InitShare /\ [][NextShare]_vars

\* C14: to_bytes gives the x byte, then one byte per entry of y;
\* from_bytes(to_bytes(s)) is s when s has a y byte; to_bytes(from_bytes(b))
\* is b when b has two bytes or more; from_bytes gives an error and no
\* share on fewer than two bytes.
C14_ShareEncoding ==
    /\ se.phase \in {"encoded", "decoded"} =>
          /\ Len(se.bytes) = 1 + Len(se.share.y)
          /\ se.bytes[1] = se.share.x
          /\ \A i \in 1..Len(se.share.y) : se.bytes[i + 1] = se.share.y[i]
    /\ (se.phase = "decoded" /\ Len(se.share.y) >= 1) =>
          (se.out.ok /\ se.out.share = se.share)
    /\ (se.phase = "parsed" /\ Len(se.bytes) >= 2) => se.out.ok
    /\ se.phase = "reencoded" => se.back = se.bytes
    /\ (se.phase \in {"parsed", "decoded"} /\ Len(se.bytes) < 2) =>
          (~se.out.ok /\ se.out.share = NoShare /\ se.out.err # "")
\* three bytes became a share of two y bytes and the same three bytes again
C14_Witness ==
    /\ se.phase = "reencoded" /\ se.bytes = <<255, 0, 7>>
    /\ se.out.share = [x |-> 255, y |-> <<0, 7>>] /\ se.back = <<255, 0, 7>>

----------------------------------------------------------------------------
(* SpecGate: the access gate (mod access_control), as section 4.4 of the   *)
(* specification describes it: grant and check calls in any order          *)

Identities == {"u1", "u2"}
\* the resource path of main, the directory it lies in (a prefix of it), and
\* another file of the directory
DocPath == "secure_data/my_secret_document.txt"
Paths == {DocPath, "secure_data", "secure_data/other.txt"}

\* AccessControl::new(): nothing granted
AccessControl_new == {}
\* grant(identity, path): adds the pair to the granted set
grant_access(granted, id, path) == granted \cup {<<id, path>>}
has_access_AnyPath(granted, id, path) == \E q \in Paths : <<id, q>> \in granted
\* check(identity, path): membership, exact match on both fields
has_access(granted, id, path) == <<id, path>> \in granted

InitGate ==
    /\ StoreInit
    /\ sp = NoSplit /\ ci = NoCipher /\ se = NoShareIO /\ cli = NoMain
    /\ ac = [NoGate EXCEPT !.phase = "on", !.granted = AccessControl_new]

Grant ==
    /\ ac.phase = "on"
    /\ \E id \in Identities, path \in Paths :
          ac' = [ac EXCEPT !.granted = grant_access(@, id, path),
                           !.calls = @ \cup {<<id, path>>},
                           !.last = [op |-> "grant", id |-> id, path |-> path, out |-> FALSE]]
    /\ UNCHANGED <<store, sp, ci, se, cli>>

Check ==
    /\ ac.phase = "on"
    /\ \E id \in Identities, path \in Paths :
          ac' = [ac EXCEPT !.last = [op |-> "check", id |-> id, path |-> path,
                                     out |-> has_access(ac.granted, id, path)]]
    /\ UNCHANGED <<store, sp, ci, se, cli>>

NextGate == Grant \/ Check
SpecGate == InitGate /\ [][NextGate]_vars

\* C12: a check returns true exactly when grant was called before with that
\* identity and that path (so not for another path or another identity
\* unless granted themselves); a grant repeated leaves the granted set as it
\* is; no step takes a pair out of the granted set.
C12_State ==
    ac.last.op = "check" => (ac.last.out <=> <<ac.last.id, ac.last.path>> \in ac.calls)
C12_Step ==
    /\ ac.granted \subseteq ac'.granted
    /\ (ac'.last.op = "grant" /\ <<ac'.last.id, ac'.last.path>> \in ac.calls)
          => ac'.granted = ac.granted
    /\ ac'.last.op = "check" => ac'.granted = ac.granted
C12_GateIsExactMembership == []C12_State /\ [][C12_Step]_vars
\* u1 holds the document's directory and the other file, u2 holds the
\* document, and the check of u1 on the document says no
C12_Witness ==
    /\ ac.calls = {<<"u1", "secure_data">>, <<"u1", "secure_data/other.txt">>, <<"u2", DocPath>>}
    /\ ac.last = [op |-> "check", id |-> "u1", path |-> DocPath, out |-> FALSE]
\* a check said yes after the grant
C12_WitnessGranted ==
    /\ ac.calls = {<<"u1", DocPath>>}
    /\ ac.last = [op |-> "check", id |-> "u1", path |-> DocPath, out |-> TRUE]

----------------------------------------------------------------------------
(* SpecMain: runs of the command-line program (main.rs), one after the     *)
(* other, each a new process: get_or_create_key, the grant, then the       *)
(* store or the load command                                               *)

MaxRuns == 3        \* runs of the program
UserId == "u1"

\* encryption::generate_key(): 32 random bytes
generate_key == MasterKeys
\* the key files a first run may find
KeyFiles ==
    {[exists |-> FALSE, cells |-> <<>>],
     [exists |-> TRUE, cells |-> MkKey(5)],
     [exists |-> TRUE, cells |-> MkKey(5) \o <<9>>]}

KeyOfFile_Unread(cells) == MkKey(0)
\* vec![0; 32], then read_exact into it
KeyOfFile(cells) == SubSeq(cells, 1, KEY_LEN)

\* get_or_create_key, fresh being what generate_key would give: the key
\* returned and the key file afterwards, or the panic of expect
get_or_create_key(kf, fresh) ==
    IF kf.exists
    THEN IF Len(kf.cells) >= KEY_LEN
         THEN [how |-> "ret", key |-> KeyOfFile(kf.cells), file |-> kf]
         ELSE [how |-> "panic", key |-> <<>>, file |-> kf]
    ELSE [how |-> "ret", key |-> fresh, file |-> [exists |-> TRUE, cells |-> fresh]]

LoadFirst_Read == "read"
\* where Command::Load begins: with the has_access test
LoadFirst == "check"

InitMain ==
    /\ StoreInit
    /\ sp = NoSplit /\ ci = NoCipher /\ se = NoShareIO /\ ac = NoGate
    /\ \E kf \in KeyFiles : cli = [NoMain EXCEPT !.pc = "idle", !.runs = MaxRuns, !.keyFile = kf]

\* a new process: Args::parse()
MainStart ==
    /\ cli.pc = "idle" /\ cli.runs > 0
    /\ \E cmd \in {"store", "load"} :
          cli' = [cli EXCEPT !.pc = "key", !.runs = @ - 1, !.cmd = cmd, !.key = <<>>,
                             !.granted = {}, !.allowed = "unknown", !.did = {}, !.out = ""]
    /\ UNCHANGED <<store, sp, ci, se, ac>>

\* let key = get_or_create_key()
MainKey ==
    /\ cli.pc = "key"
    /\ \E fresh \in generate_key :
          LET r == get_or_create_key(cli.keyFile, fresh)
          IN  IF r.how = "panic"
              THEN cli' = [cli EXCEPT !.pc = "idle", !.out = "panic: Unable to read key file"]
              ELSE cli' = [cli EXCEPT !.pc = "grant", !.key = r.key, !.keyFile = r.file,
                                      !.did = IF r.file # cli.keyFile THEN {"wrote key"} ELSE {},
                                      !.firstKey = IF @ = <<>> THEN r.key ELSE @]
    /\ UNCHANGED <<store, sp, ci, se, ac>>

\* AccessControl::new(), grant_access(user_id, path); match args.command
MainGrant ==
    /\ cli.pc = "grant"
    /\ cli' = [cli EXCEPT !.granted = grant_access(AccessControl_new, UserId, DocPath),
                          !.pc = IF cli.cmd = "store" THEN "store" ELSE LoadFirst]
    /\ UNCHANGED <<store, sp, ci, se, ac>>

\* Command::Store: encrypt, save_to_file, grant_access again
MainStore ==
    /\ cli.pc = "store"
    /\ cli' = [cli EXCEPT !.dataFile = [exists |-> TRUE, key |-> cli.key],
                          !.granted = grant_access(@, UserId, DocPath),
                          !.did = @ \cup {"wrote data"},
                          !.pc = "idle", !.out = "saved"]
    /\ UNCHANGED <<store, sp, ci, se, ac>>

\* Command::Load: if access_control.has_access(user_id, path) ... else
\* println!("Access denied.")
MainCheck ==
    /\ cli.pc = "check"
    /\ IF has_access(cli.granted, UserId, DocPath)
       THEN cli' = [cli EXCEPT !.allowed = "yes", !.pc = "read"]
       ELSE cli' = [cli EXCEPT !.allowed = "no", !.pc = "idle", !.out = "Access denied."]
    /\ UNCHANGED <<store, sp, ci, se, ac>>

\* load_from_file(&path).unwrap()
MainRead ==
    /\ cli.pc = "read"
    /\ IF cli.dataFile.exists
       THEN cli' = [cli EXCEPT !.did = @ \cup {"read"}, !.pc = "decrypt"]
       ELSE cli' = [cli EXCEPT !.did = @ \cup {"read"}, !.pc = "idle", !.out = "panic: unwrap"]
    /\ UNCHANGED <<store, sp, ci, se, ac>>

\* match decrypt(&loaded_data, &key): the data printed, or the failure
MainDecrypt ==
    /\ cli.pc = "decrypt"
    /\ cli' = [cli EXCEPT !.did = @ \cup {"decrypt"}, !.pc = "idle",
                          !.out = IF cli.dataFile.key = cli.key
                                  THEN "Decrypted retrieved data" ELSE "Failed to decrypt data"]
    /\ UNCHANGED <<store, sp, ci, se, ac>>

NextMain ==
    MainStart \/ MainKey \/ MainGrant \/ MainStore \/ MainCheck \/ MainRead \/ MainDecrypt
SpecMain == InitMain /\ [][NextMain]_vars

\* C17: in the load command the gate is asked first. The data file is read
\* and decrypted only in a run in which has_access has returned true; a run
\* in which it returned false prints "Access denied." and has read and
\* decrypted nothing; a load run that got past the key has asked the gate
\* before it ends.
C17_GateBeforeDecrypt ==
    /\ (cli.pc \in {"read", "decrypt"} \/ cli.did \cap {"read", "decrypt"} # {})
          => cli.allowed = "yes"
    /\ cli.allowed = "no"
          => (cli.pc = "idle" /\ cli.out = "Access denied." /\ cli.did \cap {"read", "decrypt"} = {})
    /\ (cli.cmd = "load" /\ cli.pc = "idle" /\ cli.granted # {}) => cli.allowed # "unknown"
\* a load run asked the gate, read the file a store run left and decrypted it
C17_Witness ==
    /\ cli.cmd = "load" /\ cli.pc = "idle" /\ cli.allowed = "yes"
    /\ cli.did = {"read", "decrypt"} /\ cli.out = "Decrypted retrieved data"

\* C18: the master key over the runs. get_or_create_key on no key file gives
\* a key of 32 bytes and leaves a key file of exactly those bytes; on a key
\* file it gives the file's first 32 bytes and leaves the file as it is;
\* nothing else writes the key file; so every run has the key of the first.
C18_State == cli.key # <<>> => cli.key = cli.firstKey
C18_Step ==
    /\ (cli.pc = "key" /\ cli'.pc = "grant" /\ ~cli.keyFile.exists)
          => /\ Len(cli'.key) = KEY_LEN
             /\ cli'.keyFile = [exists |-> TRUE, cells |-> cli'.key]
    /\ (cli.pc = "key" /\ cli.keyFile.exists)
          => /\ cli'.pc = "grant"
             /\ Len(cli'.key) = KEY_LEN
             /\ \A i \in 1..KEY_LEN : cli'.key[i] = cli.keyFile.cells[i]
             /\ cli'.keyFile = cli.keyFile
    /\ cli.pc # "key" => cli'.keyFile = cli.keyFile
C18_KeyBootstrap == []C18_State /\ [][C18_Step]_vars
\* the third run has read the key the first run generated and wrote
C18_Witness ==
    /\ cli.runs = 0 /\ cli.pc = "grant" /\ "wrote key" \notin cli.did
    /\ cli.key = MkKey(3) /\ cli.firstKey = cli.key /\ cli.keyFile.cells = cli.key

====
